---- MODULE Spec2Model ----
(***************************************************************************)
(* Model of the pals_analysis package: the implantation profile            *)
(* (physics/implantation.py), the diffusion-annihilation profile           *)
(* (physics/annihilation.py), the S-curve models and fits                  *)
(* (analysis/thickness_solver.py) and the parameter studies and the Monte  *)
(* Carlo loop (analysis/sensitivity.py).                                   *)
(*                                                                         *)
(* Numbers.  Depths, thicknesses, densities and diffusion lengths are      *)
(* integers.  A float array that the code scales by a common factor is a   *)
(* record [vals, num, den]: element i is vals[i] * num / den, with num and *)
(* den sequences of positive factors (their products are never needed      *)
(* except for a normalised profile, where they are small).  exp and the    *)
(* sigmoid are fixed-point tables; x**1.6 is a table over the energies of  *)
(* the model.                                                              *)
(***************************************************************************)
EXTENDS Integers, Sequences, FiniteSets, TLC

VARIABLES
    pc,           \* which entry point the caller runs, and how far it got
    z_grid,       \* depth grid handed to the profile functions
    energy_kev,   \* beam energy, in units of 0.01 keV
    layers,       \* layer stack handed to the profile functions
    model,        \* interface-model tag
    w,            \* interface width
    p_z,          \* what makhov_profile returned
    c_z,          \* what calculate_annihilation_profile returned
    energies,     \* energies handed to the S-curve models, fits and studies
    s_exp,        \* measured S values, in units of 0.001
    d_ox,         \* oxide thickness handed to the S-curve models
    s_surf,       \* surface S handed to the S-curve models, in units of 0.001
    ret,          \* what the last call of an S-curve model, fit or study gave
    heap,         \* the caller's layer dicts, by address
    base_layers,  \* the caller's list of layers: the addresses of its dicts
    snapshot,     \* the caller's stack as it was before the first study
    s_err,        \* measurement uncertainties handed to monte_carlo_uncertainty
    n_iterations, \* number of Monte Carlo trials asked for
    iter,         \* loop counter i of monte_carlo_uncertainty
    thicknesses,  \* fitted thicknesses kept so far
    s_surfaces,   \* fitted surface S values kept so far
    trials,       \* what the fit of each trial gave, in trial order
    rng,          \* np.random's global generator: how many values it has given
    other_draws,  \* values other users of np.random have drawn meanwhile
    noises,       \* the noise each trial of this run drew, in trial order
    prev_noises,  \* the noise each trial of the caller's previous run drew
    run           \* which run of monte_carlo_uncertainty on these inputs this is

profileVars == <<z_grid, energy_kev, layers, p_z, c_z>>
simVars == <<energies, s_exp, d_ox, s_surf>>
studyVars == <<heap, base_layers, snapshot>>
mcVars == <<s_err, n_iterations, iter, thicknesses, s_surfaces, trials,
            rng, other_draws, noises, prev_noises, run>>
vars == <<pc, model, w, profileVars, simVars, ret, studyVars, mcVars>>

-----------------------------------------------------------------------------
(* Bounds and sample values of the model *)

MaxPts == 3
MaxLayers == 2
DzValues == {1, 2}
ThicknessValues == {1, 2}
DensityValues == {1, 2}
LDiffValues == {1, 2}
WidthValues == {4, 8}
EnergyValues == {0, 50, 100}
ModelTags == {"sharp", "graded", "exponential"}
SimModelTags == {"sharp", "graded", "layered", "exponential"}
MaxEnergies == 3
SSurfValues == {450, 575}
SExpValues == {520, 575}
MaxSweep == 2
MaxIterations == 3
MaxSeed == 1
MaxOtherDraws == 1

-----------------------------------------------------------------------------
(* Arithmetic helpers *)

Max(a, b) == IF a >= b THEN a ELSE b
Min(a, b) == IF a <= b THEN a ELSE b
Abs(a) == IF a >= 0 THEN a ELSE -a

\* a numpy array: the sequence f, its elements computed once
Arr(f) == f \o <<>>

RECURSIVE Gcd(_, _)
Gcd(a, b) == IF b = 0 THEN Abs(a) ELSE Gcd(b, a % b)

RECURSIVE GcdSeq(_)
GcdSeq(s) == IF s = <<>> THEN 0 ELSE Gcd(Head(s), GcdSeq(Tail(s)))

RECURSIVE Prod(_)
Prod(s) == IF s = <<>> THEN 1 ELSE Head(s) * Prod(Tail(s))

\* vals with their common factor taken out (the factor is returned beside them)
Reduce(vals) ==
    LET g == GcdSeq(vals)
    IN  IF g <= 1 THEN [vals |-> vals, g |-> 1]
        ELSE [vals |-> Arr([i \in DOMAIN vals |-> vals[i] \div g]), g |-> g]

\* np.linspace(0, (n-1)*dz, n): a uniform grid starting at depth 0
Linspace(n, dz) == Arr([i \in 1..n |-> (i - 1) * dz])

\* np.cumsum
RECURSIVE CumSumTo(_, _)
CumSumTo(s, i) == IF i = 0 THEN 0 ELSE s[i] + CumSumTo(s, i - 1)
CumSum(s) == Arr([i \in DOMAIN s |-> CumSumTo(s, i)])

\* 2/dz times np.trapezoid(y, z) on a uniform grid: the sum of y[i] + y[i+1]
RECURSIVE Trapz2To(_, _)
Trapz2To(y, i) == IF i <= 1 THEN 0 ELSE y[i - 1] + y[i] + Trapz2To(y, i - 1)
Trapz2(y) == Trapz2To(y, Len(y))

\* a layer dict of the stack
Layer(t, rho, L) == [thickness |-> t, density |-> rho, L_diff |-> L]

-----------------------------------------------------------------------------
(* Fixed-point tables *)

\* 4 / (1 + exp(-t)) rounded, for an integer t
SigScale == 4
Sigmoid(t) == Max(0, Min(SigScale, t + 2))

\* the argument (z - d_ox) / (w/4.0) of the sigmoid, cut to an integer
SigmoidArg(z, d, width) == (4 * (z - d)) \div width

\* ExpScale * exp(-q/4) rounded, q = 0, 1, ...; 0 past the table (underflow)
ExpTable == <<8, 6, 5, 4, 3, 2, 2, 1, 1, 1, 1, 1>>
ExpScale == ExpTable[1]
ExpNeg(q) == IF q + 1 <= Len(ExpTable) THEN ExpTable[q + 1] ELSE 0

\* 1000 * (e/100)**1.6 rounded, e in units of 0.01 keV
PowN(e) ==
    CASE e = 1 -> 1
      [] e = 50 -> 330
      [] e = 100 -> 1000
      [] e = 200 -> 3031
      [] OTHER -> 1000

-----------------------------------------------------------------------------
(* physics/implantation.py: makhov_profile *)

\* the step-function loop shared by the density and the diffusion-length map:
\* layer k overwrites every point of [curr_z, curr_z + thickness]
RECURSIVE StepLoop(_, _, _, _, _)
StepLoop(grid, stack, field, k, acc) ==
    IF k > Len(stack) THEN acc.map
    ELSE LET l == stack[k]
             hi == acc.curr_z + l.thickness
             written == Arr([i \in DOMAIN grid |->
                                IF grid[i] >= acc.curr_z /\ grid[i] <= hi
                                THEN l[field] ELSE acc.map[i]])
         IN  StepLoop(grid, stack, field, k + 1, [map |-> written, curr_z |-> hi])

\* the map with the layers written in reverse order: at an interface the
\* earlier layer wins
StepMapFirstWins(grid, stack, field) ==
    LET thick == Arr([k \in DOMAIN stack |-> stack[k].thickness])
        covers(k, z) == /\ z >= CumSumTo(thick, k - 1)
                        /\ z <= CumSumTo(thick, k)
    IN  Arr([i \in DOMAIN grid |->
                LET K == {k \in DOMAIN stack : covers(k, grid[i])}
                IN  IF K = {} THEN 0
                    ELSE stack[CHOOSE k \in K : \A j \in K : k <= j][field]])
StepMap(grid, stack, field) ==
    StepLoop(grid, stack, field, 1, [map |-> Arr([i \in DOMAIN grid |-> 0]), curr_z |-> 0])

\* the sigmoid blend of layer 0 and layer 1, in units of 1/SigScale
GradedMap(grid, stack, field, width) ==
    Arr([i \in DOMAIN grid |->
            SigScale * stack[1][field]
            + (stack[2][field] - stack[1][field])
              * Sigmoid(SigmoidArg(grid[i], stack[1].thickness, width))])

\* which branch builds the map: graded needs the tag and two layers, anything
\* else (an unknown tag, or graded with a single layer) takes the step map
UsesGraded(stack, tag) == tag = "graded" /\ Len(stack) >= 2

\* the density map, in units of 1/SigScale
Densities(grid, stack, tag, width) ==
    IF UsesGraded(stack, tag) THEN GradedMap(grid, stack, "density", width)
    ELSE LET step == StepMap(grid, stack, "density")
         IN  Arr([i \in DOMAIN grid |-> SigScale * step[i]])

MAKHOV_A == 4
EnergyFloor == 1
\* eff_E = np.maximum(energy_kev, 0.01)
EffE(e) == Max(e, EnergyFloor)
\* xi_0 = (A * eff_E**N) / 0.886, in units of 0.001
Xi0(e) == (MAKHOV_A * PowN(EffE(e)) * 1000) \div 886

\* xi = np.cumsum(densities * dz) * 0.1, in units of 1/(10*SigScale)
Xi(grid, dens) ==
    LET dz == grid[2] - grid[1]
    IN  CumSum(Arr([i \in DOMAIN grid |-> dens[i] * dz]))

\* exp(-(xi/xi_0)**m), m = 2, in units of 1/ExpScale; the ratio is taken in
\* eighths and a ratio above 8 underflows to 0
ExpTerm(xi, e) ==
    LET r8 == (xi * 800) \div (SigScale * Xi0(e))
    IN  IF r8 > 64 THEN 0 ELSE ExpNeg((r8 * r8) \div 16)

\* p_z = p_xi * densities before normalisation, as integers: element i is
\* m * xi[i] * exp(..)[i] * densities[i]; the common factor 1/xi_0**m and the
\* units are left in MakhovDen
MakhovRaw(grid, e, stack, tag, width) ==
    LET dens == Densities(grid, stack, tag, width)
        xi == Xi(grid, dens)
    IN  Arr([i \in DOMAIN grid |-> 2 * xi[i] * ExpTerm(xi[i], e) * dens[i]])

MakhovNum == <<1000, 1000>>
MakhovDen(e) == <<10, SigScale, SigScale, ExpScale, Xi0(e), Xi0(e)>>

\* the guard of the division: p_z / integral if integral > 0 else p_z
NormalizeGuard(integral2) == integral2 > 0

\* array / integral, integral = dz * t2 / 2, the array being raw * num / den:
\* the common factor cancels and element i is 2 * raw[i] / (dz * t2)
DivideByIntegralBug(raw, dz, t2) ==
    LET r == Reduce(raw)
    IN  [vals |-> r.vals, num |-> <<>>, den |-> <<dz * (t2 \div r.g)>>]
DivideByIntegral(raw, dz, t2) ==
    LET r == Reduce(raw)
    IN  [vals |-> Arr([i \in DOMAIN raw |-> 2 * r.vals[i]]), num |-> <<>>,
         den |-> <<dz * (t2 \div r.g)>>]

\* the last lines of both profile functions: array, then its trapezoid
\* integral, then the guarded division
Normalize(raw, num, den, grid) ==
    LET dz == grid[2] - grid[1]
        t2 == Trapz2(raw)
    IN  IF NormalizeGuard(t2)
        THEN DivideByIntegral(raw, dz, t2) @@ [integral2 |-> t2, normalized |-> TRUE]
        ELSE [vals |-> raw, num |-> num, den |-> den,
              integral2 |-> t2, normalized |-> FALSE]

\* the print of makhov_profile when the integral is non-positive
MakhovWarns(integral2) == integral2 <= 0

makhov_profile(grid, e, stack, tag, width) ==
    LET r == Normalize(MakhovRaw(grid, e, stack, tag, width),
                       MakhovNum, MakhovDen(e), grid)
    IN  r @@ [outcome |-> "returned",
              graded |-> UsesGraded(stack, tag),
              warned |-> MakhovWarns(r.integral2)]

-----------------------------------------------------------------------------
(* physics/annihilation.py: calculate_annihilation_profile *)

\* the diffusion-length map, in units of 1/SigScale
LGrid(grid, stack, tag, width) ==
    IF UsesGraded(stack, tag) THEN GradedMap(grid, stack, "L_diff", width)
    ELSE LET step == StepMap(grid, stack, "L_diff")
         IN  Arr([i \in DOMAIN grid |-> SigScale * step[i]])

\* factor = L_grid**2 / dz**2 is Factor[i] / FactorDen
Factor(lgrid) == Arr([i \in DOMAIN lgrid |-> lgrid[i] * lgrid[i]])
FactorDen(grid) ==
    LET dz == grid[2] - grid[1] IN SigScale * SigScale * dz * dz

\* main_diag = -2 * factor - 1 and off_diag = factor, times FactorDen
MainDiag(f, fd) == Arr([i \in DOMAIN f |-> -2 * f[i] - fd])
OffDiag(f) == f

\* diags([lower, main_diag, upper], [-1, 0, 1]) with lower = off_diag[1:] and
\* upper = off_diag[:-1]: the entry in row i, column j (1-based), times FactorDen
MatrixEntryNeighbour(f, fd, i, j) ==
    CASE j = i -> MainDiag(f, fd)[i]
      [] j = i - 1 -> SubSeq(OffDiag(f), 1, Len(f) - 1)[i - 1]
      [] j = i + 1 -> SubSeq(OffDiag(f), 2, Len(f))[i]
      [] OTHER -> 0
MatrixEntry(f, fd, i, j) ==
    CASE j = i -> MainDiag(f, fd)[i]
      [] j = i - 1 -> SubSeq(OffDiag(f), 2, Len(f))[i - 1]
      [] j = i + 1 -> SubSeq(OffDiag(f), 1, Len(f) - 1)[i]
      [] OTHER -> 0

\* spsolve: the exact solution of the tridiagonal system by its adjugate.
\* Theta(k): the leading k x k minor; Phi(k): the minor of rows k..n
RECURSIVE Theta(_, _, _)
Theta(f, fd, k) ==
    IF k = 0 THEN 1
    ELSE IF k = 1 THEN MatrixEntry(f, fd, 1, 1)
    ELSE MatrixEntry(f, fd, k, k) * Theta(f, fd, k - 1)
         - MatrixEntry(f, fd, k, k - 1) * MatrixEntry(f, fd, k - 1, k)
           * Theta(f, fd, k - 2)

RECURSIVE Phi(_, _, _)
Phi(f, fd, k) ==
    LET n == Len(f)
    IN  IF k = n + 1 THEN 1
        ELSE IF k = n THEN MatrixEntry(f, fd, n, n)
        ELSE MatrixEntry(f, fd, k, k) * Phi(f, fd, k + 1)
             - MatrixEntry(f, fd, k, k + 1) * MatrixEntry(f, fd, k + 1, k)
               * Phi(f, fd, k + 2)

\* the product of the super-diagonal entries of rows lo..hi
RECURSIVE UpperProd(_, _, _, _)
UpperProd(f, fd, lo, hi) ==
    IF lo > hi THEN 1
    ELSE MatrixEntry(f, fd, lo, lo + 1) * UpperProd(f, fd, lo + 1, hi)

\* the product of the sub-diagonal entries of rows lo..hi
RECURSIVE LowerProd(_, _, _, _)
LowerProd(f, fd, lo, hi) ==
    IF lo > hi THEN 1
    ELSE MatrixEntry(f, fd, lo, lo - 1) * LowerProd(f, fd, lo + 1, hi)

Sign(i, j) == IF (i + j) % 2 = 0 THEN 1 ELSE -1

Adjugate(f, fd, i, j) ==
    CASE i = j -> Theta(f, fd, i - 1) * Phi(f, fd, i + 1)
      [] i < j -> Sign(i, j) * UpperProd(f, fd, i, j - 1)
                  * Theta(f, fd, i - 1) * Phi(f, fd, j + 1)
      [] OTHER -> Sign(i, j) * LowerProd(f, fd, j + 1, i)
                  * Theta(f, fd, j - 1) * Phi(f, fd, i + 1)

RECURSIVE RowDot(_, _, _, _, _)
RowDot(f, fd, rhs, i, j) ==
    IF j = 0 THEN 0
    ELSE Adjugate(f, fd, i, j) * rhs[j] + RowDot(f, fd, rhs, i, j - 1)

\* spsolve(matrix, -p_z): element i is Solve.vals[i] * FactorDen / Solve.det,
\* with det > 0 (numerators and determinant change sign together)
Solve(f, fd, p) ==
    LET n == Len(f)
        det == Theta(f, fd, n)
        s == IF det < 0 THEN -1 ELSE 1
        rhs == Arr([j \in 1..n |-> -p[j]])
    IN  [vals |-> Arr([i \in 1..n |-> s * RowDot(f, fd, rhs, i, n)]),
         det |-> s * det]

\* c_z = np.maximum(c_z, 0)
ClampNothing(v) == v
Clamp(v) == Arr([i \in DOMAIN v |-> Max(v[i], 0)])

\* calculate_annihilation_profile has no print and no raise on a non-positive
\* integral
AnnihilationWarns(integral2) == FALSE

\* prof: the p_z argument, a record [vals, num, den]
calculate_annihilation_profile(grid, prof, stack, tag, width) ==
    LET f == Factor(LGrid(grid, stack, tag, width))
        fd == FactorDen(grid)
        p == Reduce(prof.vals)
        sol == Solve(f, fd, p.vals)
        c == Reduce(Clamp(sol.vals))
        r == Normalize(c.vals, <<c.g, p.g, fd>> \o prof.num,
                       <<sol.det>> \o prof.den, grid)
    IN  r @@ [outcome |-> "returned",
              graded |-> UsesGraded(stack, tag),
              warned |-> AnnihilationWarns(r.integral2),
              undershoot |-> \E i \in DOMAIN sol.vals : sol.vals[i] < 0]

-----------------------------------------------------------------------------
(* analysis/thickness_solver.py *)

\* An energy argument: a Python float or a numpy array
Scalar(e) == [shape |-> "scalar", data |-> <<e>>]
Array(s) == [shape |-> "array", data |-> s]
\* np.atleast_1d
AtLeast1d(x) == [shape |-> "array", data |-> x.data]

\* A rational S value num/den, den > 0, in lowest terms
Ratio(n, d) ==
    LET g == Gcd(n, d) IN IF g = 0 THEN [num |-> 0, den |-> 1]
                          ELSE [num |-> n \div g, den |-> d \div g]

THEO_A == 40
\* MAKHOV_A = 4.0 of config.py, in the same units
CONFIG_MAKHOV_A == 4
THEO_RHO_OX == 524
THEO_S_BULK == 520

\* theoretical_S_curve past the line E = np.atleast_1d(E), : the value for
\* one energy e. limit/z_0 = d_ox*0.1*RHO_OX*0.886/(A*E**N), taken in eighths
TheoreticalPoint(e, d, S_surf) ==
    LET r8 == (8 * d * THEO_RHO_OX * 886) \div (THEO_A * PowN(e) * 1000)
        ex == IF r8 > 64 THEN 0 ELSE ExpNeg((r8 * r8) \div 16)
        fr == ExpScale - ex
    IN  Ratio(fr * S_surf + (ExpScale - fr) * THEO_S_BULK, ExpScale)

\* E = np.atleast_1d(E),  -- the trailing comma makes E a one-element tuple
\* holding the array, and E**N on a tuple raises TypeError
theoretical_S_curve(E, d, S_surf) ==
    LET E1 == [shape |-> "tuple", data |-> <<AtLeast1d(E)>>]
    IN  IF E1.shape = "tuple"
        THEN [op |-> "theoretical_S_curve", outcome |-> "TypeError"]
        ELSE LET s_pred == Arr([k \in DOMAIN E1.data |-> TheoreticalPoint(E1.data[k], d, S_surf)])
             IN  [op |-> "theoretical_S_curve", outcome |-> "returned",
                  shape |-> IF Len(s_pred) > 1 THEN "array" ELSE "scalar",
                  value |-> s_pred]

\* scipy's curve_fit as its callers see it: an infeasible p0 is a ValueError,
\* an exception of the model function at its first evaluation propagates,
\* and otherwise the optimiser converges (popt, pcov) or runs out of
\* evaluations (RuntimeError)
CurveFit(first, feasible, opt) ==
    IF ~feasible THEN [outcome |-> "ValueError"]
    ELSE IF first.outcome # "returned" THEN [outcome |-> first.outcome]
    ELSE IF opt.converged
         THEN [outcome |-> "returned", popt |-> opt.popt, pcov |-> opt.pcov]
         ELSE [outcome |-> "RuntimeError"]

\* solve_for_thickness: popt, pcov = curve_fit(theoretical_S_curve, energies,
\* s_exp, p0=[20, 0.54]); return popt[0], popt[1]
SolveP0 == <<20, 540>>
solve_for_thickness(E, s, opt) ==
    LET fit == CurveFit(theoretical_S_curve(E, SolveP0[1], SolveP0[2]), TRUE, opt)
    IN  IF fit.outcome = "returned"
        THEN [op |-> "solve_for_thickness", outcome |-> "returned",
              value |-> <<fit.popt[1], fit.popt[2]>>]
        ELSE [op |-> "solve_for_thickness", outcome |-> fit.outcome]

\* numerical_S_curve's geometry, scaled to the grids of the model: the oxide
\* (density 5.24, L_diff 30) over the steel substrate (thickness 2000,
\* density 8.00, L_diff 150) on np.linspace(0, 2000, 1000)
SIM_RHO_OX == 1
SIM_L_OX == 1
SIM_RHO_SUB == 2
SIM_L_SUB == 2
SIM_SUB_THICKNESS == 2000
SIM_PTS == 3
SIM_DZ == 2
SimLayers(d) ==
    <<Layer(d, SIM_RHO_OX, SIM_L_OX), Layer(SIM_SUB_THICKNESS, SIM_RHO_SUB, SIM_L_SUB)>>
SimGrid == Linspace(SIM_PTS, SIM_DZ)

\* s_map, in units of 0.001/SigScale: the sigmoid of the graded branch, the
\* step of the layered branch
GradedSMap(grid, d, width, ss, sb) ==
    Arr([i \in DOMAIN grid |->
            SigScale * ss + (sb - ss) * Sigmoid(SigmoidArg(grid[i], d, width))])
LayeredSMap(grid, d, ss, sb) ==
    Arr([i \in DOMAIN grid |-> SigScale * (IF grid[i] <= d THEN ss ELSE sb)])

\* s_point = np.trapezoid(c_z * s_map, z_grid)
\* the same with a rectangle sum, dz * sum(c_z * s_map), for the integral
SPointRectangle(grid, c, s_map) ==
    LET dz == grid[2] - grid[1]
        t2 == 2 * CumSumTo(Arr([i \in DOMAIN grid |-> c.vals[i] * s_map[i]]), Len(grid))
    IN  IF t2 = 0 THEN Ratio(0, 1)
        ELSE Ratio(dz * t2 * Prod(c.num), 2 * SigScale * Prod(c.den))
SPoint(grid, c, s_map) ==
    LET dz == grid[2] - grid[1]
        t2 == Trapz2(Arr([i \in DOMAIN grid |-> c.vals[i] * s_map[i]]))
    IN  IF t2 = 0 THEN Ratio(0, 1)
        ELSE Ratio(dz * t2 * Prod(c.num), 2 * SigScale * Prod(c.den))

\* one pass of the loop over the energies
SimPoint(grid, e, stack, tag, width, s_map) ==
    LET p == makhov_profile(grid, e, stack, tag, width)
        c == calculate_annihilation_profile(grid, p, stack, tag, width)
    IN  [s |-> SPoint(grid, c, s_map), normalized |-> c.normalized]

\* the tags whose branch of the if / if / else chain does not raise: the else
\* belongs to the second if, so only 'layered' gets past it
PassesModelCheck(tag) == tag = "layered"

numerical_S_curve(E, d, width, ss, sb, tag) ==
    IF ~PassesModelCheck(tag)
    THEN [op |-> "numerical_S_curve", outcome |-> "ValueError"]
    ELSE LET s_map == LayeredSMap(SimGrid, d, ss, sb)
             es == AtLeast1d(E).data
             pts == Arr([k \in DOMAIN es |->
                            SimPoint(SimGrid, es[k], SimLayers(d), tag, width, s_map)])
         IN  [op |-> "numerical_S_curve", outcome |-> "returned", shape |-> "array",
              value |-> Arr([k \in DOMAIN es |-> pts[k].s]),
              normalized |-> Arr([k \in DOMAIN es |-> pts[k].normalized])]

\* solve_graded_model: fit_func fixes s_bulk = 0.520 and model = 'graded'
GRADED_S_BULK == 520
GradedP0 == <<100, 15, 575>>
GradedLower == <<10, 1, 400>>
GradedUpper == <<1000, 200, 700>>
InBounds(x, lo, hi) == \A k \in DOMAIN x : lo[k] <= x[k] /\ x[k] <= hi[k]

fit_func(E, d, width, s_s) == numerical_S_curve(E, d, width, s_s, GRADED_S_BULK, "graded")

solve_graded_model(E, s, opt) ==
    LET fit == CurveFit(fit_func(E, GradedP0[1], GradedP0[2], GradedP0[3]),
                        InBounds(GradedP0, GradedLower, GradedUpper), opt)
    IN  IF fit.outcome = "returned"
        THEN [op |-> "solve_graded_model", outcome |-> "returned",
              value |-> <<fit.popt[1], fit.popt[2], fit.popt[3]>>]
        ELSE [op |-> "solve_graded_model", outcome |-> fit.outcome]

-----------------------------------------------------------------------------
(* analysis/sensitivity.py *)

\* the stack a list of addresses stands for
Deref(h, list) == Arr([k \in DOMAIN list |-> h[list[k]]])

\* the grid of the studies, np.linspace(0, 600, 300), scaled to the model
STUDY_PTS == 3
STUDY_DZ == 2
StudyGrid == Linspace(STUDY_PTS, STUDY_DZ)
\* the defaults model='sharp', w=10.0 the studies leave in place
DEFAULT_W == 10
STUDY_S_SURF == 575
STUDY_S_BULK == 520

\* the inner loop of the studies over the energies: makhov_profile,
\* calculate_annihilation_profile, then the trapezoid of c_z * s_z
StudyCurve(es, stack, s_z) ==
    Arr([k \in DOMAIN es |-> SimPoint(StudyGrid, es[k], stack, "sharp", DEFAULT_W, s_z).s])

\* study_interface_width's s_z = 0.52 + (0.575 - 0.52) / (1 + exp((z - d_ox)/(w/4)))
InterfaceSMap(grid, d, width) ==
    Arr([j \in DOMAIN grid |->
            SigScale * STUDY_S_BULK
            + (STUDY_S_SURF - STUDY_S_BULK) * Sigmoid(-SigmoidArg(grid[j], d, width))])

\* the loop of study_interface_width from sweep point k on: an exception of
\* solve_for_thickness is not caught and ends the study
RECURSIVE InterfaceWidthLoop(_, _, _, _, _, _)
InterfaceWidthLoop(E, stack, width_values, opts, k, acc) ==
    IF k > Len(width_values)
    THEN [op |-> "study_interface_width", outcome |-> "returned",
          widths |-> width_values,
          thicknesses |-> acc.thicknesses, s_surfaces |-> acc.s_surfaces]
    ELSE LET s_curves == StudyCurve(E.data, stack,
                                    InterfaceSMap(StudyGrid, stack[1].thickness,
                                                  width_values[k]))
             fit == solve_for_thickness(E, s_curves, opts[k])
         IN  IF fit.outcome # "returned"
             THEN [op |-> "study_interface_width", outcome |-> fit.outcome]
             ELSE InterfaceWidthLoop(E, stack, width_values, opts, k + 1,
                      [thicknesses |-> Append(acc.thicknesses, fit.value[1]),
                       s_surfaces |-> Append(acc.s_surfaces, fit.value[2])])

study_interface_width(h, E, base, width_values, opts) ==
    [ret |-> InterfaceWidthLoop(E, Deref(h, base), width_values, opts, 1,
                                [thicknesses |-> <<>>, s_surfaces |-> <<>>]),
     heap |-> h]

\* study_diffusion_length: every layer is copied (layer.copy()) before its
\* L_diff is set, so the caller's dicts are not written
study_diffusion_length(h, e, base, L_values) ==
    LET stack == Deref(h, base)
        p == makhov_profile(StudyGrid, e, stack, "sharp", DEFAULT_W)
        modified(L) == Arr([j \in DOMAIN stack |-> [stack[j] EXCEPT !.L_diff = L]])
    IN  [ret |-> [op |-> "study_diffusion_length", outcome |-> "returned",
                  L_values |-> L_values,
                  profiles |-> Arr([k \in DOMAIN L_values |->
                                   calculate_annihilation_profile(
                                       StudyGrid, p, modified(L_values[k]),
                                       "sharp", DEFAULT_W)])],
         heap |-> h]

\* layers_modified = base_layers.copy(): a new list of the same dicts
ListCopy(list) == list

\* layers_modified[0]['thickness'] = d_ox: a write to the dict at the first
\* address of the list
SetThickness(h, list, d) == [h EXCEPT ![list[1]].thickness = d]

\* the loop of study_layer_thickness from sweep point k on
RECURSIVE LayerThicknessLoop(_, _, _, _, _, _)
LayerThicknessLoop(h, E, thickness_values, base, k, s_curves) ==
    IF k > Len(thickness_values)
    THEN [ret |-> [op |-> "study_layer_thickness", outcome |-> "returned",
                   thicknesses |-> thickness_values, s_curves |-> s_curves],
          heap |-> h]
    ELSE LET d == thickness_values[k]
             layers_modified == ListCopy(base)
             h2 == SetThickness(h, layers_modified, d)
             s_z == LayeredSMap(StudyGrid, d, STUDY_S_SURF, STUDY_S_BULK)
             s_curve == StudyCurve(E.data, Deref(h2, layers_modified), s_z)
         IN  LayerThicknessLoop(h2, E, thickness_values, base, k + 1,
                                Append(s_curves, s_curve))

study_layer_thickness(h, E, thickness_values, base) ==
    LayerThicknessLoop(h, E, thickness_values, base, 1, <<>>)

\* monte_carlo_uncertainty: what the except clause does to the loop counter
\* (continue: on to the next trial)
AfterFailedFitBreak(k, n) == n
AfterFailedFit(k, n) == k + 1

\* np.mean and np.std of the kept values: nan for an empty array
Mean(v) ==
    IF v = <<>> THEN [nan |-> TRUE]
    ELSE [nan |-> FALSE, value |-> Ratio(CumSumTo(v, Len(v)), Len(v))]
Std(v) ==
    IF v = <<>> THEN [nan |-> TRUE]
    ELSE [nan |-> FALSE,
          zero |-> Len(v) * CumSumTo(Arr([k \in DOMAIN v |-> v[k] * v[k]]), Len(v))
                   = CumSumTo(v, Len(v)) * CumSumTo(v, Len(v))]

-----------------------------------------------------------------------------
(* The callers *)

NoCall == [outcome |-> "none"]

LayerValues ==
    {Layer(t, rho, L) : t \in ThicknessValues, rho \in DensityValues, L \in LDiffValues}
Stacks == UNION {[1..k -> LayerValues] : k \in 1..MaxLayers}
Grids == {Linspace(n, dz) : n \in 2..MaxPts, dz \in DzValues}
Seqs(S, lo, hi) == UNION {[1..k -> S] : k \in lo..hi}
EnergyArgs == {Array(s) : s \in Seqs(EnergyValues \ {0}, 1, MaxEnergies)}
                \cup {Scalar(e) : e \in EnergyValues \ {0}}

\* the stacks the studies are run on: an oxide over the substrate, or the
\* oxide alone
StudyStacks ==
    {SimLayers(t) : t \in ThicknessValues}
    \cup {<<Layer(t, SIM_RHO_OX, SIM_L_OX)>> : t \in ThicknessValues}

\* what the optimiser of curve_fit may end with: for the two parameters of
\* solve_for_thickness, and for the three of solve_graded_model (the bounded
\* optimiser keeps its iterates inside the bounds)
FitOutcomes ==
    {[converged |-> FALSE]}
    \cup {[converged |-> TRUE, popt |-> <<20, 540>>, pcov |-> c] : c \in {"finite", "inf"}}
GradedFitOutcomes ==
    {[converged |-> FALSE]}
    \cup {[converged |-> TRUE, popt |-> <<120, 15, 575>>, pcov |-> c] : c \in {"finite", "inf"}}

IdleProfile ==
    /\ z_grid = <<>> /\ energy_kev = 0 /\ layers = <<>>
    /\ p_z = NoCall /\ c_z = NoCall
IdleSim ==
    /\ energies = Array(<<>>) /\ s_exp = <<>> /\ d_ox = 0 /\ s_surf = 0
IdleStudy ==
    /\ heap = <<>> /\ base_layers = <<>> /\ snapshot = <<>>
IdleMC ==
    /\ s_err = 0 /\ n_iterations = 0 /\ iter = 0
    /\ thicknesses = <<>> /\ s_surfaces = <<>> /\ trials = <<>>
    /\ rng = 0 /\ other_draws = 0 /\ noises = <<>> /\ prev_noises = <<>> /\ run = 0

\* a caller of the two profile functions
InitProfile ==
    /\ pc = "profile"
    /\ z_grid \in Grids
    /\ energy_kev \in EnergyValues
    /\ layers \in Stacks
    /\ model \in ModelTags
    /\ w \in WidthValues
    /\ p_z = NoCall
    /\ c_z = NoCall
    /\ ret = NoCall
    /\ IdleSim /\ IdleStudy /\ IdleMC

CallMakhov ==
    /\ pc = "profile"
    /\ p_z = NoCall
    /\ p_z' = makhov_profile(z_grid, energy_kev, layers, model, w)
    /\ UNCHANGED <<pc, model, w, z_grid, energy_kev, layers, c_z,
                   simVars, ret, studyVars, mcVars>>

\* the pipeline of every caller: the annihilation profile of makhov's result
CallAnnihilation ==
    /\ pc = "profile"
    /\ p_z # NoCall
    /\ c_z = NoCall
    /\ c_z' = calculate_annihilation_profile(z_grid, p_z, layers, model, w)
    /\ UNCHANGED <<pc, model, w, z_grid, energy_kev, layers, p_z,
                   simVars, ret, studyVars, mcVars>>

\* a caller that hands calculate_annihilation_profile an array of its own
\* (the function takes any array as p_z)
SuppliedProfiles(grid) ==
    {Arr([i \in DOMAIN grid |-> -1]),
     Arr([i \in DOMAIN grid |-> IF i % 2 = 1 THEN 1 ELSE -1]),
     Arr([i \in DOMAIN grid |-> IF i % 2 = 1 THEN -1 ELSE 1])}
CallAnnihilationOn ==
    /\ pc = "profile"
    /\ p_z = NoCall
    /\ c_z = NoCall
    /\ \E p \in SuppliedProfiles(z_grid) :
          c_z' = calculate_annihilation_profile(
                     z_grid, [vals |-> p, num |-> <<>>, den |-> <<>>],
                     layers, model, w)
    /\ UNCHANGED <<pc, model, w, z_grid, energy_kev, layers, p_z,
                   simVars, ret, studyVars, mcVars>>

NextProfile == CallMakhov \/ CallAnnihilation \/ CallAnnihilationOn

\* a caller of the S-curve models and of the fits
InitSim ==
    /\ pc = "sim"
    /\ energies \in EnergyArgs
    /\ s_exp \in [DOMAIN energies.data -> SExpValues]
    /\ d_ox \in ThicknessValues
    /\ s_surf \in SSurfValues
    /\ model \in SimModelTags
    /\ w \in WidthValues
    /\ ret = NoCall
    /\ IdleProfile /\ IdleStudy /\ IdleMC

Return(r) ==
    /\ ret = NoCall
    /\ ret' = r
    /\ UNCHANGED <<pc, model, w, profileVars, simVars, studyVars, mcVars>>

CallNumericalSCurve ==
    /\ pc = "sim"
    /\ Return(numerical_S_curve(energies, d_ox, w, s_surf, GRADED_S_BULK, model))

CallTheoreticalSCurve ==
    /\ pc = "sim"
    /\ Return(theoretical_S_curve(energies, d_ox, s_surf))

CallSolveForThickness ==
    /\ pc = "sim"
    /\ \E opt \in FitOutcomes : Return(solve_for_thickness(energies, s_exp, opt))

CallSolveGradedModel ==
    /\ pc = "sim"
    /\ \E opt \in GradedFitOutcomes : Return(solve_graded_model(energies, s_exp, opt))

NextSim ==
    \/ CallNumericalSCurve
    \/ CallTheoreticalSCurve
    \/ CallSolveForThickness
    \/ CallSolveGradedModel

\* a caller that owns a layer list and runs studies on it, one after another
InitStudy ==
    /\ pc = "study"
    /\ \E st \in StudyStacks :
          /\ heap = st
          /\ base_layers = Arr([k \in DOMAIN st |-> k])
          /\ snapshot = st
    /\ energies \in {Array(s) : s \in Seqs(EnergyValues \ {0}, 1, 1)}
    /\ s_exp \in [DOMAIN energies.data -> {575}]
    /\ d_ox = 0 /\ s_surf = 0
    /\ model = "sharp"
    /\ w = DEFAULT_W
    /\ ret = NoCall
    /\ IdleProfile /\ IdleMC

StudyDone(r) ==
    /\ ret' = r.ret
    /\ heap' = r.heap
    /\ UNCHANGED <<pc, model, w, profileVars, simVars, base_layers, snapshot, mcVars>>

CallStudyInterfaceWidth ==
    /\ pc = "study"
    /\ \E width_values \in Seqs(WidthValues, 0, MaxSweep) :
         \E opts \in [DOMAIN width_values -> FitOutcomes] :
           StudyDone(study_interface_width(heap, energies, base_layers,
                                           width_values, opts))

CallStudyDiffusionLength ==
    /\ pc = "study"
    /\ \E L_values \in Seqs(LDiffValues, 0, MaxSweep) :
         StudyDone(study_diffusion_length(heap, energies.data[1], base_layers,
                                          L_values))

CallStudyLayerThickness ==
    /\ pc = "study"
    /\ \E thickness_values \in Seqs(ThicknessValues, 0, MaxSweep) :
         StudyDone(study_layer_thickness(heap, energies, thickness_values,
                                         base_layers))

NextStudy ==
    \/ CallStudyInterfaceWidth
    \/ CallStudyDiffusionLength
    \/ CallStudyLayerThickness

\* a caller of monte_carlo_uncertainty, in a process where np.random's global
\* generator has already given an unknown number of values
InitMC ==
    /\ pc = "mc"
    /\ energies \in {Array(s) : s \in Seqs(EnergyValues \ {0}, 2, MaxEnergies)}
    /\ s_exp \in [DOMAIN energies.data -> SExpValues]
    /\ s_err \in {0, 1}
    /\ n_iterations \in 0..MaxIterations
    /\ iter = 0
    /\ thicknesses = <<>> /\ s_surfaces = <<>> /\ trials = <<>>
    /\ rng \in 0..MaxSeed
    /\ other_draws = 0
    /\ noises = <<>> /\ prev_noises = <<>>
    /\ run = 1
    /\ d_ox = 0 /\ s_surf = 0
    /\ model = "sharp"
    /\ w = DEFAULT_W
    /\ ret = NoCall
    /\ IdleProfile /\ IdleStudy

\* the k-th value of the global generator's stream for a unit normal, cut to
\* -1, 0 or 1: a fixed function of the position, as the stream of a seeded
\* generator is
NormalAt(k) == (((k * 7 + 3) % 11) % 3) - 1

\* np.random.normal(0, s_err): one draw per data point, the next n values of
\* the global stream scaled by s_err
Noise(n, err, pos) == Arr([k \in 1..n |-> err * NormalAt(pos + k)])

\* one pass of the loop: draw the sample, fit it, keep the result or skip
MCTrial ==
    /\ pc = "mc"
    /\ iter < n_iterations
    /\ \E opt \in FitOutcomes :
         LET noise == Noise(Len(s_exp), s_err, rng)
             s_sample == Arr([k \in DOMAIN s_exp |-> s_exp[k] + noise[k]])
             fit == solve_for_thickness(energies, s_sample, opt)
         IN  /\ trials' = Append(trials, fit)
             /\ noises' = Append(noises, noise)
             /\ rng' = rng + Len(s_exp)
             /\ IF fit.outcome = "returned"
                THEN /\ thicknesses' = Append(thicknesses, fit.value[1])
                     /\ s_surfaces' = Append(s_surfaces, fit.value[2])
                     /\ iter' = iter + 1
                ELSE /\ UNCHANGED <<thicknesses, s_surfaces>>
                     /\ iter' = AfterFailedFit(iter, n_iterations)
    /\ UNCHANGED <<pc, model, w, profileVars, simVars, ret, studyVars,
                   s_err, n_iterations, other_draws, prev_noises, run>>

\* after the loop: the arrays and their mean and standard deviation
MCReturn ==
    /\ pc = "mc"
    /\ iter >= n_iterations
    /\ ret = NoCall
    /\ ret' = [op |-> "monte_carlo_uncertainty", outcome |-> "returned",
               thickness_mean |-> Mean(thicknesses),
               thickness_std |-> Std(thicknesses),
               thickness_values |-> thicknesses,
               s_surface_mean |-> Mean(s_surfaces),
               s_surface_std |-> Std(s_surfaces),
               s_surface_values |-> s_surfaces]
    /\ UNCHANGED <<pc, model, w, profileVars, simVars, studyVars, mcVars>>

\* another user of np.random in the same process draws one value: the global
\* generator moves on
OtherDraw ==
    /\ pc = "mc"
    /\ other_draws < MaxOtherDraws
    /\ rng' = rng + 1
    /\ other_draws' = other_draws + 1
    /\ UNCHANGED <<pc, model, w, profileVars, simVars, ret, studyVars,
                   s_err, n_iterations, iter, thicknesses, s_surfaces, trials,
                   noises, prev_noises, run>>

\* the caller runs monte_carlo_uncertainty again on the same inputs: the
\* function starts with empty lists; nothing reseeds the generator
MCAgain ==
    /\ pc = "mc"
    /\ ret # NoCall
    /\ run = 1
    /\ run' = 2
    /\ prev_noises' = noises
    /\ noises' = <<>>
    /\ iter' = 0
    /\ thicknesses' = <<>> /\ s_surfaces' = <<>> /\ trials' = <<>>
    /\ ret' = NoCall
    /\ UNCHANGED <<pc, model, w, profileVars, simVars, studyVars,
                   s_err, n_iterations, rng, other_draws>>

NextMC == MCTrial \/ MCReturn \/ OtherDraw \/ MCAgain

Init == InitProfile \/ InitSim \/ InitStudy \/ InitMC

Next ==
    \/ CallMakhov
    \/ CallAnnihilation
    \/ CallAnnihilationOn
    \/ CallNumericalSCurve
    \/ CallTheoreticalSCurve
    \/ CallSolveForThickness
    \/ CallSolveGradedModel
    \/ CallStudyInterfaceWidth
    \/ CallStudyDiffusionLength
    \/ CallStudyLayerThickness
    \/ MCTrial
    \/ MCReturn
    \/ OtherDraw
    \/ MCAgain

Spec == Init /\ [][Next]_vars

\* one caller at a time
SpecProfile == InitProfile /\ [][NextProfile]_vars
SpecSim == InitSim /\ [][NextSim]_vars
SpecStudy == InitStudy /\ [][NextStudy]_vars
SpecMC == InitMC /\ [][NextMC]_vars

-----------------------------------------------------------------------------
(* Properties of the profile functions (SpecProfile) *)

\* C1: for a positive beam energy, the array makhov_profile returned and the
\* array calculate_annihilation_profile returned each have trapezoid integral
\* 1 over the grid whenever the integral computed before the division was
\* strictly positive: dz/2 * sum(y[i] + y[i+1]) * num/den = 1.
ProfilesNormalized ==
    LET dz == z_grid[2] - z_grid[1]
        unit(prof) == dz * Trapz2(prof.vals) * Prod(prof.num) = 2 * Prod(prof.den)
    IN  /\ (p_z # NoCall /\ energy_kev > 0 /\ p_z.integral2 > 0) => unit(p_z)
        /\ (c_z # NoCall /\ energy_kev > 0 /\ c_z.integral2 > 0) => unit(c_z)

\* C1, its case: both functions have returned for a positive energy, both
\* integrals were positive, and the grid has a step above 1 and three points
ProfilesNormalizedCase ==
    /\ p_z # NoCall /\ c_z # NoCall
    /\ energy_kev > 0
    /\ p_z.integral2 > 0 /\ c_z.integral2 > 0
    /\ p_z.normalized /\ c_z.normalized
    /\ Len(z_grid) = MaxPts /\ z_grid[2] - z_grid[1] > 1
    /\ Len(layers) = 2

\* C2: when the integral before normalisation is <= 0, both functions return
\* the profile un-normalised and both give the caller a diagnostic; neither
\* returns the degenerate profile silently.
DegenerateProfileDiagnosed ==
    /\ (p_z # NoCall /\ p_z.integral2 <= 0) => (~p_z.normalized /\ p_z.warned)
    /\ (c_z # NoCall /\ c_z.integral2 <= 0) => (~c_z.normalized /\ c_z.warned)

\* C7: a tag that is neither sharp nor graded is rejected with an error by
\* makhov_profile, by calculate_annihilation_profile and by numerical_S_curve;
\* none of them returns a profile built as for the sharp model.
UnknownTagRejected ==
    LET unknown == model \notin {"sharp", "graded"}
    IN  /\ (p_z # NoCall /\ unknown) => p_z.outcome = "ValueError"
        /\ (c_z # NoCall /\ unknown) => c_z.outcome = "ValueError"
        /\ (ret # NoCall /\ ret.op = "numerical_S_curve" /\ unknown)
               => ret.outcome = "ValueError"

\* C8: the graded model asked for with fewer than 2 layers is rejected by
\* makhov_profile and by calculate_annihilation_profile: neither returns a
\* profile (no density or diffusion-length map is built).
GradedNeedsTwoLayers ==
    LET invalid == model = "graded" /\ Len(layers) < 2
    IN  /\ (p_z # NoCall /\ invalid) => p_z.outcome # "returned"
        /\ (c_z # NoCall /\ invalid) => c_z.outcome # "returned"

-----------------------------------------------------------------------------
(* Properties of the S-curve models and the fits (SpecSim) *)

\* C3: numerical_S_curve called with the graded or the sharp model and a
\* non-empty array of energies returns an array with one S value per energy;
\* it does not fail for these models.
SimulatorReturnsOnePerEnergy ==
    (/\ ret # NoCall
     /\ ret.op = "numerical_S_curve"
     /\ model \in {"sharp", "graded"}
     /\ energies.shape = "array")
    => (/\ ret.outcome = "returned"
        /\ Len(ret.value) = Len(energies.data))

\* C4: for at least 3 (energy, S) pairs solve_graded_model returns a triple
\* inside the bounds [10,1000] x [1,200] x [0.4,0.7], or fails because the
\* optimiser ran out of evaluations (RuntimeError); it fails for no other
\* reason.
GradedFitReturnsOrDiverges ==
    (/\ ret # NoCall
     /\ ret.op = "solve_graded_model"
     /\ Len(s_exp) >= 3)
    => \/ /\ ret.outcome = "returned"
          /\ InBounds(ret.value, GradedLower, GradedUpper)
       \/ ret.outcome = "RuntimeError"

\* C5: theoretical_S_curve returns f*S_surf + (1-f)*S_bulk for every energy,
\* with the constant A of the configuration (4.0).
TheoreticalCurveValue ==
    (ret # NoCall /\ ret.op = "theoretical_S_curve")
    => (/\ ret.outcome = "returned"
        /\ THEO_A = CONFIG_MAKHOV_A
        /\ ret.value = Arr([k \in DOMAIN energies.data |->
                               TheoreticalPoint(energies.data[k], d_ox, s_surf)]))

\* C6: for at least 2 pairs solve_for_thickness returns the two best-fit
\* parameters, their two standard errors and a success status (the five
\* values its caller unpacks).
ThicknessFitReportsErrors ==
    (/\ ret # NoCall
     /\ ret.op = "solve_for_thickness"
     /\ Len(s_exp) >= 2)
    => (/\ ret.outcome = "returned"
        /\ Len(ret.value) = 5)

-----------------------------------------------------------------------------
(* Properties of the parameter studies (SpecStudy) *)

\* C9: after any sequence of studies the caller's base_layers list and every
\* layer record in it are as they were before the first study.
StudiesLeaveBaseLayers ==
    pc = "study" => Deref(heap, base_layers) = snapshot

-----------------------------------------------------------------------------
(* Properties of the Monte Carlo loop (SpecMC) *)

\* C10: when monte_carlo_uncertainty returns, every one of the n_iterations
\* trials has been attempted whatever the earlier trials gave, and the
\* returned thickness_values and s_surface_values are the results of the
\* successful trials, in trial order.
FailedTrialsSkipped ==
    (pc = "mc" /\ ret # NoCall)
    => LET ok == SelectSeq(trials, LAMBDA t : t.outcome = "returned")
       IN  /\ Len(trials) = n_iterations
           /\ ret.thickness_values = Arr([k \in DOMAIN ok |-> ok[k].value[1]])
           /\ ret.s_surface_values = Arr([k \in DOMAIN ok |-> ok[k].value[2]])

\* C10, its case: the loop has returned after at least two trials, the first
\* of which failed
FailedTrialsSkippedCase ==
    /\ pc = "mc" /\ ret # NoCall
    /\ n_iterations >= 2
    /\ Len(trials) >= 2
    /\ trials[1].outcome # "returned"

\* C11: when every trial of a batch of at least one trial failed,
\* monte_carlo_uncertainty reports a fit-divergence failure for the batch
\* instead of returning means and standard deviations over no samples.
EmptyBatchReportsDivergence ==
    (/\ pc = "mc" /\ ret # NoCall
     /\ n_iterations > 0
     /\ \A k \in DOMAIN trials : trials[k].outcome # "returned")
    => (/\ ret.outcome = "FitDivergence"
        /\ "thickness_mean" \notin DOMAIN ret)

\* C12: a fit failure at a sweep point of study_interface_width is caught
\* inside the study: the study returns its results and no exception of the
\* fit reaches the caller.
InterfaceStudyCatchesFitFailure ==
    (pc = "study" /\ ret # NoCall /\ ret.op = "study_interface_width")
    => (/\ ret.outcome = "returned"
        /\ "thicknesses" \in DOMAIN ret)

\* C13: with zero injected noise (s_err = 0) and at least one trial,
\* monte_carlo_uncertainty keeps at least one successful trial and returns a
\* standard deviation of 0 for the thickness and for the surface S.
ZeroNoiseZeroSpread ==
    (/\ pc = "mc" /\ ret # NoCall
     /\ s_err = 0
     /\ n_iterations > 0)
    => (/\ Len(ret.thickness_values) >= 1
        /\ ~ret.thickness_std.nan /\ ret.thickness_std.zero
        /\ ~ret.s_surface_std.nan /\ ret.s_surface_std.zero)

\* C14: the noise a trial draws depends only on the inputs and the trial, not
\* on how many values other trials, earlier runs or other users have drawn
\* from the random source: a second run of monte_carlo_uncertainty on the
\* same inputs gives every trial the noise, and so the fit result, the first
\* run gave it.
TrialsReproducible ==
    (pc = "mc" /\ run = 2 /\ ret # NoCall)
    => (/\ Len(noises) = Len(prev_noises)
        /\ noises = prev_noises)

\* C15: each study returns one output per supplied sweep value, in the order
\* of the values: study_diffusion_length one profile per L value (the k-th
\* profile is that of the k-th L), study_layer_thickness one S curve per
\* thickness, study_interface_width one fitted thickness and one fitted
\* surface S per width.
OneOutputPerSweepValue ==
    (pc = "study" /\ ret # NoCall)
    => /\ ret.outcome = "returned"
       /\ ret.op = "study_diffusion_length"
             => /\ Len(ret.profiles) = Len(ret.L_values)
                /\ \A k \in DOMAIN ret.L_values :
                      ret.profiles[k] =
                          study_diffusion_length(heap, energies.data[1], base_layers,
                                                 <<ret.L_values[k]>>).ret.profiles[1]
       /\ ret.op = "study_layer_thickness"
             => Len(ret.s_curves) = Len(ret.thicknesses)
       /\ ret.op = "study_interface_width"
             => /\ Len(ret.thicknesses) = Len(ret.widths)
                /\ Len(ret.s_surfaces) = Len(ret.widths)

\* C16: for a scalar energy numerical_S_curve and theoretical_S_curve return
\* a scalar-shaped result (the energy is broadcast to a one-element array
\* inside only).
ScalarEnergyScalarResult ==
    (/\ pc = "sim" /\ ret # NoCall
     /\ ret.op \in {"numerical_S_curve", "theoretical_S_curve"}
     /\ energies.shape = "scalar")
    => (/\ ret.outcome = "returned"
        /\ ret.shape = "scalar")

-----------------------------------------------------------------------------
(* More properties of the profile functions (SpecProfile) *)

\* C17: every element of the array makhov_profile returned and of the array
\* calculate_annihilation_profile returned is >= 0 (values and scale factors
\* alike); negative values of the solver are clamped to zero before the
\* integral is taken, so none survives in the result.
ProfilesNonNegative ==
    LET nonneg(prof) ==
            /\ \A i \in DOMAIN prof.vals : prof.vals[i] >= 0
            /\ \A k \in DOMAIN prof.num : prof.num[k] > 0
            /\ \A k \in DOMAIN prof.den : prof.den[k] > 0
            /\ prof.integral2 >= 0
    IN  /\ p_z # NoCall => nonneg(p_z)
        /\ c_z # NoCall => nonneg(c_z)

\* C17, its case: the solver gave a negative value at some grid point and a
\* positive one at another, and the clamped profile was normalised
ProfilesNonNegativeCase ==
    /\ c_z # NoCall
    /\ c_z.undershoot
    /\ c_z.normalized
    /\ \E i \in DOMAIN c_z.vals : c_z.vals[i] = 0

\* C18: in sharp mode each grid point inside the stack gets the density (in
\* makhov_profile) and the diffusion length (in calculate_annihilation_profile)
\* of the layer whose closed interval [start, start + thickness] contains it,
\* and a point exactly on an interface gets those of the deeper layer.
SharpMapLastWriteWins ==
    LET thick == Arr([k \in DOMAIN layers |-> layers[k].thickness])
        K(z) == {k \in DOMAIN layers :
                    z >= CumSumTo(thick, k - 1) /\ z <= CumSumTo(thick, k)}
        deepest(z) == CHOOSE k \in K(z) : \A j \in K(z) : k >= j
        agrees(map, field) ==
            \A i \in DOMAIN z_grid :
                K(z_grid[i]) # {}
                => map[i] = SigScale * layers[deepest(z_grid[i])][field]
    IN  /\ (p_z # NoCall /\ model = "sharp")
               => agrees(Densities(z_grid, layers, model, w), "density")
        /\ (c_z # NoCall /\ model = "sharp")
               => agrees(LGrid(z_grid, layers, model, w), "L_diff")

\* C18, its case: both functions ran in sharp mode on two layers of different
\* density and diffusion length, with a grid point exactly on the interface
SharpMapLastWriteWinsCase ==
    /\ p_z # NoCall /\ c_z # NoCall
    /\ model = "sharp"
    /\ Len(layers) = 2
    /\ layers[1].density # layers[2].density
    /\ layers[1].L_diff # layers[2].L_diff
    /\ \E i \in DOMAIN z_grid : z_grid[i] = layers[1].thickness

\* C19: in the matrix calculate_annihilation_profile builds, row i has the
\* diagonal entry -2*f_i - 1 and its off-diagonal entries (columns i-1 and
\* i+1, where they exist) both equal f_i = L(z_i)^2/dz^2, the coefficient of
\* grid point i itself; the first and the last row have the same stencil.
\* (Entries are scaled by FactorDen.)
StencilUsesLocalCoefficient ==
    c_z # NoCall
    => LET f == Factor(LGrid(z_grid, layers, model, w))
           fd == FactorDen(z_grid)
           n == Len(z_grid)
       IN  \A i \in 1..n : \A j \in 1..n :
               MatrixEntry(f, fd, i, j) =
                   IF j = i THEN -2 * f[i] - fd
                   ELSE IF j = i - 1 \/ j = i + 1 THEN f[i]
                   ELSE 0

\* C19, its case: the function ran on a grid of three points whose diffusion
\* lengths differ from one point to the next
StencilUsesLocalCoefficientCase ==
    /\ c_z # NoCall
    /\ Len(z_grid) = 3
    /\ LET f == Factor(LGrid(z_grid, layers, model, w))
       IN  f[1] # f[2] /\ f[2] # f[3]

-----------------------------------------------------------------------------
(* More properties of the parameter studies (SpecStudy) *)

\* C20: in the sharp model the response map, the density map and the
\* diffusion-length map put every grid point in the same layer, a point
\* exactly on the interface z = d_ox included: where the response map of
\* study_layer_thickness gives the surface response the density and the
\* diffusion length are those of layer 0, and where it gives the bulk
\* response they are those of layer 1.
ResponseMapMatchesLayerMaps ==
    (pc = "study" /\ ret # NoCall /\ ret.op = "study_layer_thickness")
    => \A k \in DOMAIN ret.thicknesses :
          LET d == ret.thicknesses[k]
              base == Deref(heap, base_layers)
              stack == [base EXCEPT ![1].thickness = d]
              s_z == LayeredSMap(StudyGrid, d, STUDY_S_SURF, STUDY_S_BULK)
              rho == StepMap(StudyGrid, stack, "density")
              L == StepMap(StudyGrid, stack, "L_diff")
          IN  Len(stack) >= 2
              => \A i \in DOMAIN StudyGrid :
                    /\ s_z[i] = SigScale * STUDY_S_SURF
                          => /\ rho[i] = stack[1].density
                             /\ L[i] = stack[1].L_diff
                    /\ s_z[i] = SigScale * STUDY_S_BULK
                          => /\ rho[i] = stack[2].density
                             /\ L[i] = stack[2].L_diff

-----------------------------------------------------------------------------
(* More properties of the S-curve models (SpecSim) *)

\* C21: whenever the annihilation profile used for an energy was normalised,
\* the S value numerical_S_curve predicts for that energy lies between
\* min(s_surf, s_bulk) and max(s_surf, s_bulk); a value outside that range
\* comes only from a profile returned un-normalised.
PredictedSWithinResponseRange ==
    (/\ pc = "sim" /\ ret # NoCall
     /\ ret.op = "numerical_S_curve"
     /\ ret.outcome = "returned")
    => \A k \in DOMAIN ret.value :
          ret.normalized[k]
          => /\ Min(s_surf, GRADED_S_BULK) * ret.value[k].den <= ret.value[k].num
             /\ ret.value[k].num <= Max(s_surf, GRADED_S_BULK) * ret.value[k].den

\* C21, its case: the simulator returned for two energies or more, the
\* profile of the first was normalised and its S value lies strictly between
\* the two responses (both layers contribute)
PredictedSWithinResponseRangeCase ==
    /\ pc = "sim" /\ ret # NoCall
    /\ ret.op = "numerical_S_curve"
    /\ ret.outcome = "returned"
    /\ Len(ret.value) >= 2
    /\ ret.normalized[1]
    /\ Min(s_surf, GRADED_S_BULK) * ret.value[1].den < ret.value[1].num
    /\ ret.value[1].num < Max(s_surf, GRADED_S_BULK) * ret.value[1].den

====
